---- MODULE Spec2Model ----
(***************************************************************************)
(* Model of aiohttp/pytest_plugin.py: the coroutine-aware execution hook   *)
(* (pytest_pyfunc_call with _passthrough_loop_context), the loop fixture   *)
(* and the three factory fixtures test_server, raw_test_server and         *)
(* test_client, for the run of ONE test item.                              *)
(*                                                                         *)
(* One behaviour of the model is one test: fixture setup, the hook call,   *)
(* the test body making factory calls on the loop, and fixture teardown.   *)
(* A factory call is two steps, because go() suspends in start_server():   *)
(* the synchronous part up to the start (assertions, construction) and the *)
(* completion of the start (append to the registry, or the error).  The    *)
(* test body awaits the factory calls it makes: it ends only when none is  *)
(* in flight.                                                              *)
(***************************************************************************)
EXTENDS Integers, Sequences, FiniteSets, TLC

\* ------------------------------------------------------------- bounds
\* Number of factory calls the test body makes.
MaxCalls == 2

\* ------------------------------------------------------------- values
\* funcargs.get('loop', None): the absent scheduler.
NoLoop == "None"
\* The event-loop objects of the test: the one the plugin makes for it, and
\* one made elsewhere, to which a test's application can be bound instead.
Loops == {"L1", "L2"}
\* Resources are numbered from 1 in the order they are constructed; 0 is
\* the identity of a resource that is not there.
\* **kwargs of a factory call: none, or some named options.
Kwargs == {{}, {"opt"}}
\* *args of a client factory call: none, or one positional argument.
ArgsSet == {<<>>, <<"a">>}
Factories == {"test_server", "raw_test_server", "test_client"}

VARIABLES
    pc,          \* position of the test run: setup, call, body, teardown, done
    isCoro,      \* asyncio.iscoroutinefunction(pyfuncitem.function)
    hasLoop,     \* the test (or a fixture it uses) requests the loop fixture
    loopState,   \* per loop object: absent, live, closed
    tornDownBy,  \* per loop object: who ran teardown_test_loop on it
    fixtureLoop, \* the loop fixture's value, pyfuncitem.funcargs['loop']
    hookLoop,    \* _loop inside pytest_pyfunc_call
    hookCreated, \* the hook's context manager made hookLoop itself
    hookResult,  \* pending, None, True, raised
    invoked,     \* number of times the hook called pyfuncitem.obj
    taskLoop,    \* loop on which the test task was created and driven
    bodyOutcome, \* how the test task finished: running, returned, raised
    registry,    \* per factory: servers / clients list
    pending,     \* resources whose start_server() is in flight
    nextId,      \* identity of the next constructed resource
    nCalls,      \* factory calls made so far
    lastCall,    \* the latest factory call: its inputs and synchronous outcome
    lastDone,    \* the latest completed start: resource id and outcome
    nCtorCalls,  \* number of invocations of a bare callable by test_client.go
    lastCtor,    \* the arguments the latest such invocation received
    started,     \* per factory: ids in the order their calls succeeded
    fin,         \* per factory: teardown pending, running, done, failed
    closing,     \* the resource whose close() is in flight (at most one)
    closeLog,    \* per factory: ids in the order close() was issued
    hung         \* ids of resources whose close(), once issued, never finishes

vars == <<pc, isCoro, hasLoop, loopState, tornDownBy, fixtureLoop, hookLoop,
          hookCreated, hookResult, invoked, taskLoop, bodyOutcome, registry,
          pending,
          nextId, nCalls, lastCall, lastDone, nCtorCalls, lastCtor,
          started, fin,
          closing, closeLog, hung>>

hookVars == <<hookLoop, hookCreated, hookResult, invoked, taskLoop, bodyOutcome>>
callVars == <<pending, nextId, nCalls, lastCall, lastDone, nCtorCalls, lastCtor>>
ctorCalls == <<nCtorCalls, lastCtor>>
regVars == <<registry, started>>
finVars == <<fin, closing, closeLog, hung>>
cfgVars == <<isCoro, hasLoop>>

NoCall == [fac |-> "none", form |-> "none", tloop |-> NoLoop, args |-> <<>>,
           kw |-> {}, outcome |-> "none", id |-> 0]
NoDone == [id |-> 0, outcome |-> "none"]
NoCtor == [loop |-> NoLoop, args |-> <<>>, kw |-> {}]

\* ------------------------------------------------------------- test_utils
\* setup_test_loop(): a new event loop object, ready to run.
NewLoop(ls) == CHOOSE l \in Loops : ls[l] = "absent"
setup_test_loop(ls, l) == [ls EXCEPT ![l] = "live"]

\* teardown_test_loop(loop): the loop is closed.
teardown_test_loop(ls, l) == [ls EXCEPT ![l] = "closed"]

\* ------------------------------------------------------------- Init
Init ==
    /\ isCoro \in BOOLEAN
    /\ hasLoop \in BOOLEAN
    /\ pc = IF hasLoop THEN "setup" ELSE "call"
    /\ loopState = [l \in Loops |-> "absent"]
    /\ tornDownBy = [l \in Loops |-> "nobody"]
    /\ fixtureLoop = NoLoop
    /\ hookLoop = NoLoop
    /\ hookCreated = FALSE
    /\ hookResult = "pending"
    /\ invoked = 0
    /\ taskLoop = NoLoop
    /\ bodyOutcome = "running"
    /\ registry = [f \in Factories |-> <<>>]
    /\ pending = {}
    /\ nextId = 1
    /\ nCalls = 0
    /\ lastCall = NoCall
    /\ lastDone = NoDone
    /\ nCtorCalls = 0
    /\ lastCtor = NoCtor
    /\ started = [f \in Factories |-> <<>>]
    /\ fin = [f \in Factories |-> "pending"]
    /\ closing = {}
    /\ closeLog = [f \in Factories |-> <<>>]
    /\ hung = {}

\* ------------------------------------------------------------- loop fixture
\* loop(request), setup half: loop_context() makes the loop, the fixture
\* yields it; the factory fixtures' registries are created empty after it.
LoopFixtureSetup ==
    /\ pc = "setup"
    /\ hasLoop
    /\ LET l == NewLoop(loopState) IN
        /\ loopState' = setup_test_loop(loopState, l)
        /\ fixtureLoop' = l
    /\ pc' = "call"
    /\ UNCHANGED <<cfgVars, tornDownBy, hookVars, callVars, regVars, finVars>>

\* ------------------------------------------------------------- the hook
\* _passthrough_loop_context: `if loop:` passes an existing loop through,
\* otherwise the context manager makes (and later tears down) its own.
PassesThrough(loop) == loop # NoLoop

\* What the hook does when the with-block is left by an exception: the
\* generator is resumed by throw() at its yield, which has no try/finally,
\* so in both branches nothing after the yield runs.
ExitOnError(ls, td, loop, created) == <<ls, td>>

\* A context manager that tears the loop down whoever made it.
ExitAlwaysTeardown(ls, td, loop, created) ==
    <<teardown_test_loop(ls, loop), [td EXCEPT ![loop] = "hook"]>>

\* What the hook does when the with-block is left normally: the generator
\* resumes after its yield; only the else branch has a teardown after it.
ExitNormally(ls, td, loop, created) ==
    IF created
    THEN <<teardown_test_loop(ls, loop), [td EXCEPT ![loop] = "hook"]>>
    ELSE <<ls, td>>

\* A hook that takes every test function for a coroutine function.
HandlesAll(coro) == TRUE

\* `if asyncio.iscoroutinefunction(pyfuncitem.function):`
Handles(coro) == coro

\* pytest_pyfunc_call for a function that is not a coroutine function: the
\* if is not taken and the hook falls off its end, returning None.
HookDecline ==
    /\ pc = "call"
    /\ ~Handles(isCoro)
    /\ hookResult' = "None"
    /\ pc' = IF fixtureLoop = NoLoop THEN "done" ELSE "teardown"
    /\ UNCHANGED <<cfgVars, loopState, tornDownBy, fixtureLoop, hookLoop,
                   hookCreated, invoked, taskLoop, bodyOutcome, callVars,
                   regVars, finVars>>

\* pytest_pyfunc_call for a coroutine function, up to and including
\* _loop.create_task(pyfuncitem.obj(**testargs)).
HookEnter ==
    /\ pc = "call"
    /\ Handles(isCoro)
    /\ LET existing_loop == fixtureLoop IN
       IF PassesThrough(existing_loop)
       THEN /\ hookLoop' = existing_loop
            /\ hookCreated' = FALSE
            /\ taskLoop' = existing_loop
            /\ UNCHANGED loopState
       ELSE LET l == NewLoop(loopState) IN
            /\ loopState' = setup_test_loop(loopState, l)
            /\ hookLoop' = l
            /\ hookCreated' = TRUE
            /\ taskLoop' = l
    /\ invoked' = invoked + 1
    /\ pc' = "body"
    /\ UNCHANGED <<cfgVars, tornDownBy, fixtureLoop, hookResult, bodyOutcome,
                   callVars, regVars, finVars>>

\* The test body's view of its factory calls (what it passed, what came
\* back) ends with the body: the task is finished and its frame is gone.
BodyFrameGone ==
    /\ lastCall' = NoCall
    /\ lastDone' = NoDone
    /\ lastCtor' = NoCtor
    /\ UNCHANGED nCtorCalls

\* The task made by create_task() finishes: the test body returned, or it
\* raised (an assertion of the test, or an error of a call it made).
BodyEnd(outcome) ==
    /\ pc = "body"
    /\ pending = {}
    /\ bodyOutcome' = outcome
    /\ pc' = "ran"
    /\ BodyFrameGone
    /\ UNCHANGED <<cfgVars, loopState, tornDownBy, fixtureLoop, hookLoop,
                   hookCreated, hookResult, invoked, taskLoop, pending,
                   nextId, nCalls, regVars, finVars>>

\* A hook that swallows the exception of the test body.
HookResultSwallow(outcome) == "True"

\* What _loop.run_until_complete(task) does with the finished task: it
\* returns its result, or re-raises its exception into the with-block.
HookResultFor(outcome) == IF outcome = "returned" THEN "True" ELSE "raised"

\* The rest of pytest_pyfunc_call once the task is finished: the
\* with-block is left, normally and on to `return True`, or by the
\* exception, which then leaves the hook.
HookExit ==
    /\ pc = "ran"
    /\ hookResult' = HookResultFor(bodyOutcome)
    /\ LET after == IF hookResult' = "True"
                    THEN ExitNormally(loopState, tornDownBy, hookLoop, hookCreated)
                    ELSE ExitOnError(loopState, tornDownBy, hookLoop, hookCreated)
       IN  /\ loopState' = after[1]
           /\ tornDownBy' = after[2]
    /\ pc' = IF fixtureLoop = NoLoop THEN "done" ELSE "teardown"
    /\ UNCHANGED <<cfgVars, fixtureLoop, hookLoop, hookCreated, invoked,
                   taskLoop, bodyOutcome, callVars, regVars, finVars>>

\* ------------------------------------------------------------- resources
\* TestServer(app): bound to the application's loop; no constructor options.
\* (The **kwargs of the server factories go to start_server() alone, whose
\* outcome is left open here, so they are not part of the state.)
TestServer(id, app_loop) ==
    [id |-> id, kind |-> "server", loop |-> app_loop, form |-> "app",
     ref |-> 0, opts |-> {}]

\* RawTestServer(handler, loop=loop): bound to the loop it is given.
RawTestServer(id, loop) ==
    [id |-> id, kind |-> "raw", loop |-> loop, form |-> "handler",
     ref |-> 0, opts |-> {}]

\* TestClient(target, **opts): wraps the target (ref names a registered
\* server it wraps, 0 an object of the test's own making); started with no
\* options: client.start_server().
TestClient(id, form, tloop, ref, opts) ==
    [id |-> id, kind |-> "client", loop |-> tloop, form |-> form,
     ref |-> ref, opts |-> opts]

\* The registry a resource of this kind is appended to.
FactoryOf(kind) ==
    CASE kind = "server" -> "test_server"
      [] kind = "raw"    -> "raw_test_server"
      [] OTHER           -> "test_client"

Ids(seq) == {seq[i].id : i \in 1..Len(seq)}

\* The pre-built targets a test can hand to test_client: an Application, a
\* TestServer or a RawTestServer, registered by a factory of this test (ref
\* is its id) or made by the test itself on any loop (ref = 0).
Targets(form) ==
    LET own == {<<l, 0>> : l \in Loops}
        reg(f) == {<<registry[f][i].loop, registry[f][i].id>> :
                      i \in 1..Len(registry[f])}
    IN  CASE form = "app"    -> own
          [] form = "server" -> own \cup reg("test_server")
          [] form = "raw"    -> own \cup reg("raw_test_server")

CanCall ==
    /\ pc = "body"
    /\ fixtureLoop # NoLoop
    /\ nCalls < MaxCalls

\* A factory call that failed an assertion before constructing anything.
Rejected(fac, form, tloop, args, kw) ==
    /\ lastCall' = [fac |-> fac, form |-> form, tloop |-> tloop, args |-> args,
                    kw |-> kw, outcome |-> "AssertionError", id |-> 0]
    /\ UNCHANGED <<pending, nextId, lastDone>>

\* A factory call that constructed resource r and suspended in its start.
Starting(fac, form, tloop, args, kw, r) ==
    /\ lastCall' = [fac |-> fac, form |-> form, tloop |-> tloop, args |-> args,
                    kw |-> kw, outcome |-> "starting", id |-> r.id]
    /\ pending' = pending \cup {r}
    /\ nextId' = nextId + 1
    /\ UNCHANGED lastDone

\* ------------------------------------------------------------- test_server
\* assert app.loop is loop
ServerAccepts(app_loop, loop) == app_loop = loop

\* test_server.go(app, **kwargs) up to the suspension in start_server().
ServerGo(app_loop) ==
    /\ CanCall
    /\ nCalls' = nCalls + 1
    /\ IF ServerAccepts(app_loop, fixtureLoop)
       THEN Starting("test_server", "app", app_loop, <<>>, {},
                     TestServer(nextId, app_loop))
       ELSE Rejected("test_server", "app", app_loop, <<>>, {})
    /\ UNCHANGED ctorCalls
    /\ UNCHANGED <<pc, cfgVars, loopState, tornDownBy, fixtureLoop, hookVars,
                   regVars, finVars>>

\* ------------------------------------------------------------- raw_test_server
\* raw_test_server.go(handler, **kwargs) up to the suspension in
\* start_server(): no assertion, the server is made on the fixture's loop.
RawServerGo ==
    /\ CanCall
    /\ nCalls' = nCalls + 1
    /\ Starting("raw_test_server", "handler", fixtureLoop, <<>>, {},
                RawTestServer(nextId, fixtureLoop))
    /\ UNCHANGED ctorCalls
    /\ UNCHANGED <<pc, cfgVars, loopState, tornDownBy, fixtureLoop, hookVars,
                   regVars, finVars>>

\* ------------------------------------------------------------- test_client
\* A client factory without the loop assertions.
ClientAcceptsAnyLoop(tloop, args, loop) == args = <<>>

\* A client factory without the `assert not args` lines.
ClientAcceptsAnyArgs(tloop, args, loop) == tloop = loop

\* The two assertions of each isinstance branch, in the code's order:
\* assert not args; assert <target's loop> is loop.
ClientAccepts(tloop, args, loop) == args = <<>> /\ tloop = loop

\* A client factory that forgets *args when it invokes the callable.
CallableArgsNoPositional(loop, args, kw) ==
    [loop |-> loop, args |-> <<>>, kw |-> kw]

\* The arguments the bare callable is invoked with: __param(loop, *args, **kwargs)
CallableArgs(loop, args, kw) == [loop |-> loop, args |-> args, kw |-> kw]

\* The options the client of the else branch is made with: TestClient(__param)
CallableClientOpts(kw) == {}

\* test_client.go(__param, *args, **kwargs) for an Application, TestServer or
\* RawTestServer, up to the suspension in client.start_server().
ClientGo(form, tloop, ref, args, kw) ==
    /\ CanCall
    /\ <<tloop, ref>> \in Targets(form)
    /\ nCalls' = nCalls + 1
    /\ IF ClientAccepts(tloop, args, fixtureLoop)
       THEN Starting("test_client", form, tloop, args, kw,
                     TestClient(nextId, form, tloop, ref, kw))
       ELSE Rejected("test_client", form, tloop, args, kw)
    /\ UNCHANGED ctorCalls
    /\ UNCHANGED <<pc, cfgVars, loopState, tornDownBy, fixtureLoop, hookVars,
                   regVars, finVars>>

\* test_client.go(__param, *args, **kwargs) for any other __param: it is
\* called with the loop and the arguments; what it returns (an object bound
\* to rloop) is wrapped; NoLoop as rloop stands for the callable raising.
ClientGoCallable(args, kw, rloop) ==
    /\ CanCall
    /\ nCalls' = nCalls + 1
    /\ nCtorCalls' = nCtorCalls + 1
    /\ lastCtor' = CallableArgs(fixtureLoop, args, kw)
    /\ IF rloop = NoLoop
       THEN /\ lastCall' = [fac |-> "test_client", form |-> "callable",
                            tloop |-> NoLoop, args |-> args, kw |-> kw,
                            outcome |-> "CallableError", id |-> 0]
            /\ UNCHANGED <<pending, nextId, lastDone>>
       ELSE Starting("test_client", "callable", rloop, args, kw,
                     TestClient(nextId, "callable", rloop, 0,
                                CallableClientOpts(kw)))
    /\ UNCHANGED <<pc, cfgVars, loopState, tornDownBy, fixtureLoop, hookVars,
                   regVars, finVars>>

\* ------------------------------------------------------------- start completes
\* The lines after `yield from ....start_server(...)` in each go():
\* servers.append(server) / clients.append(client); return it.
Register(reg, r) == [reg EXCEPT ![FactoryOf(r.kind)] = Append(@, r)]

\* A go() that appends before the start has succeeded.
AfterStartAlways(reg, r, ok) == Register(reg, r)

\* The registry after `yield from ....start_server(...)`: the append comes
\* after it, so it is reached only when the start did not raise.
AfterStart(reg, r, ok) == IF ok THEN Register(reg, r) ELSE reg

\* start_server() of r finishes: it returns, and go() appends r and returns
\* it; or it raises, and the exception leaves go() at the yield from.
StartFinish(r, ok) ==
    /\ pc = "body"
    /\ r \in pending
    /\ pending' = pending \ {r}
    /\ registry' = AfterStart(registry, r, ok)
    /\ started' = IF ok
                  THEN [started EXCEPT ![FactoryOf(r.kind)] = Append(@, r.id)]
                  ELSE started
    /\ lastDone' = [id |-> r.id, outcome |-> IF ok THEN "returned" ELSE "StartError"]
    /\ UNCHANGED <<pc, cfgVars, loopState, tornDownBy, fixtureLoop, hookVars,
                   nextId, nCalls, lastCall, ctorCalls, finVars>>

\* ------------------------------------------------------------- teardown
\* A teardown that takes the oldest entry first: pop(0).
PopFirst(seq) == 1

\* servers.pop() / clients.pop(): the position removed from the list.
PopIndex(seq) == Len(seq)

\* The list without the element at position i.
Without(seq, i) == SubSeq(seq, 1, i - 1) \o SubSeq(seq, i + 1, Len(seq))

\* `yield from ....close()` inside the while loop: the next iteration, and
\* with it the next pop and close, runs only when this close has returned.
MayIssueClose(inFlight) == inFlight = {}

\* What is left of finalize() when a close() raises: the exception leaves
\* the while loop and run_until_complete(); the fixture's teardown has
\* failed and the rest of the list stays as it is.
AfterCloseError(f) == [fin EXCEPT ![f] = "failed"]

\* The code after a fixture's yield starts to run (pytest tears the
\* fixtures of a test down one after the other, the loop fixture last):
\* loop.run_until_complete(finalize()), which needs a loop that is not closed.
FinalizeBegin(f) ==
    /\ pc = "teardown"
    /\ fin[f] = "pending"
    /\ \A g \in Factories : fin[g] # "running"
    /\ fin' = [fin EXCEPT ![f] = IF loopState[fixtureLoop] = "live"
                                 THEN "running" ELSE "failed"]
    /\ UNCHANGED <<pc, cfgVars, loopState, tornDownBy, fixtureLoop, hookVars,
                   callVars, regVars, closing, closeLog, hung>>

\* One iteration of `while servers: yield from servers.pop().close()` up to
\* the suspension in close(); hangs says that this close() is one that
\* never finishes (a peer that never answers the shutdown).
CloseBegin(f, hangs) ==
    /\ pc = "teardown"
    /\ fin[f] = "running"
    /\ MayIssueClose(closing)
    /\ registry[f] # <<>>
    /\ LET i == PopIndex(registry[f])
           r == registry[f][i]
       IN  /\ registry' = [registry EXCEPT ![f] = Without(@, i)]
           /\ closing' = closing \cup {r}
           /\ closeLog' = [closeLog EXCEPT ![f] = Append(@, r.id)]
           /\ hung' = IF hangs THEN hung \cup {r.id} ELSE hung
    /\ UNCHANGED <<pc, cfgVars, loopState, tornDownBy, fixtureLoop, hookVars,
                   callVars, started, fin>>

\* A drain with a timeout around each close().
GivesUpAfterTimeout(r) == TRUE

\* The drain gives up on a close() in flight: never, the while loop has
\* no timeout and no cancellation around its `yield from`.
GivesUp(r) == FALSE

\* close() of r finishes: it returns and the loop goes on, or it raises.
\* A close() that hangs finishes only if the drain gives up on it.
CloseFinish(f, r, ok) ==
    /\ pc = "teardown"
    /\ fin[f] = "running"
    /\ r \in closing
    /\ r.id \in hung => (GivesUp(r) /\ ~ok)
    /\ closing' = closing \ {r}
    /\ fin' = IF ok THEN fin ELSE AfterCloseError(f)
    /\ UNCHANGED <<pc, cfgVars, loopState, tornDownBy, fixtureLoop, hookVars,
                   callVars, regVars, closeLog, hung>>

\* `while servers:` is reached again, after the awaited close(), and finds
\* the list empty.
DrainFinished(reg, inFlight) == reg = <<>> /\ inFlight = {}

\* `while servers:` finds the list empty: finalize() returns, and so does
\* run_until_complete().
FinalizeEnd(f) ==
    /\ pc = "teardown"
    /\ fin[f] = "running"
    /\ DrainFinished(registry[f], closing)
    /\ fin' = [fin EXCEPT ![f] = "done"]
    /\ UNCHANGED <<pc, cfgVars, loopState, tornDownBy, fixtureLoop, hookVars,
                   callVars, regVars, closing, closeLog, hung>>

\* loop(request), teardown half: loop_context() is left and tears the loop
\* down, after every fixture that depends on the loop has been torn down.
LoopFixtureTeardown ==
    /\ pc = "teardown"
    /\ \A f \in Factories : fin[f] \in {"done", "failed"}
    /\ loopState' = teardown_test_loop(loopState, fixtureLoop)
    /\ tornDownBy' = [tornDownBy EXCEPT ![fixtureLoop] =
                        IF @ = "nobody" THEN "fixture" ELSE @]
    /\ pc' = "done"
    /\ UNCHANGED <<cfgVars, fixtureLoop, hookVars, callVars, regVars, finVars>>

\* ------------------------------------------------------------- specification
Next ==
    \/ LoopFixtureSetup
    \/ HookDecline
    \/ HookEnter
    \/ \E outcome \in {"returned", "raised"} : BodyEnd(outcome)
    \/ HookExit
    \/ \E l \in Loops : ServerGo(l)
    \/ RawServerGo
    \/ \E form \in {"app", "server", "raw"}, l \in Loops, ref \in 0..MaxCalls,
          args \in ArgsSet, kw \in Kwargs : ClientGo(form, l, ref, args, kw)
    \/ \E args \in ArgsSet, kw \in Kwargs, rl \in Loops \cup {NoLoop} :
          ClientGoCallable(args, kw, rl)
    \/ \E r \in pending, ok \in BOOLEAN : StartFinish(r, ok)
    \/ \E f \in Factories : FinalizeBegin(f)
    \/ \E f \in Factories, hangs \in BOOLEAN : CloseBegin(f, hangs)
    \/ \E f \in Factories, r \in closing, ok \in BOOLEAN : CloseFinish(f, r, ok)
    \/ \E f \in Factories : FinalizeEnd(f)
    \/ LoopFixtureTeardown

Spec == Init /\ [][Next]_vars

\* The steps of a running drain.  run_until_complete() keeps the loop
\* running until finalize() is done, so a step of the drain that stays
\* possible is taken: the loop resumes finalize() when the awaited close()
\* has finished, and a close() that does not hang does finish.
DrainStep ==
    \/ \E f \in Factories, hangs \in BOOLEAN : CloseBegin(f, hangs)
    \/ \E f \in Factories, r \in closing, ok \in BOOLEAN : CloseFinish(f, r, ok)
    \/ \E f \in Factories : FinalizeEnd(f)

LiveSpec == Spec /\ WF_vars(DrainStep)

\* ------------------------------------------------------------- properties
IdsOf(seq) == [i \in 1..Len(seq) |-> seq[i].id]
Reverse(seq) == [i \in 1..Len(seq) |-> seq[Len(seq) + 1 - i]]
PreBuilt == {"app", "server", "raw"}
\* A step that is a factory call.
IsCall == nCalls' = nCalls + 1
\* A step in which no resource is constructed, started or registered.
NothingAttempted ==
    /\ pending' = pending
    /\ nextId' = nextId
    /\ registry' = registry
    /\ started' = started
    /\ nCtorCalls' = nCtorCalls

\* C1: for each factory fixture, the closes issued so far are always the
\* most recently registered resources in reverse order of their successful
\* calls (what is still registered, followed by the reverse of the closes
\* issued, is the order of success); at most one close is in flight, so a
\* close starts only after the previous one has finished; and a teardown
\* that has run to its end has issued the closes rn, ..., r1.
C1_ReverseOrderTeardown ==
    /\ Cardinality(closing) <= 1
    /\ \A f \in Factories :
        /\ IdsOf(registry[f]) \o Reverse(closeLog[f]) = started[f]
        /\ fin[f] = "done" => closeLog[f] = Reverse(started[f])

\* C1 witness: a teardown that ran to its end over two resources, the second
\* of which was called first but succeeded last.
C1_Witness ==
    \E f \in Factories :
        /\ fin[f] = "done"
        /\ Len(started[f]) >= 2
        /\ started[f][1] > started[f][2]
        /\ closeLog[f] = Reverse(started[f])

\* C2 (as claimed): while the body runs, each registry holds one entry per
\* successful call made so far, and once a fixture's teardown has run (to
\* its end or to an exception) its registry is empty.
C2_CountThenEmpty ==
    \A f \in Factories :
        /\ pc = "body" => Len(registry[f]) = Len(started[f])
        /\ fin[f] \in {"done", "failed"} => registry[f] = <<>>

\* C3 (as claimed): when a close raised during a fixture's teardown, close
\* has still been issued for every resource that was registered, and the
\* registry is drained.
C3_DrainsDespiteCloseError ==
    \A f \in Factories :
        fin[f] = "failed" =>
            /\ Len(closeLog[f]) = Len(started[f])
            /\ registry[f] = <<>>

\* C4: a call of test_server or of test_client with a pre-built target
\* bound to another loop than the fixture's ends in an AssertionError, and
\* the step constructs, starts and registers nothing.
C4_OtherLoopRejected ==
    [][(/\ IsCall
        /\ lastCall'.fac \in {"test_server", "test_client"}
        /\ lastCall'.form \in PreBuilt
        /\ lastCall'.tloop # fixtureLoop)
       => (/\ lastCall'.outcome = "AssertionError"
           /\ lastCall'.id = 0
           /\ NothingAttempted)]_vars

\* C4 witness: the client factory was called, with no positional
\* arguments, for a target bound to another loop, and was rejected.
C4_Witness ==
    /\ lastCall.fac = "test_client"
    /\ lastCall.form \in PreBuilt
    /\ lastCall.args = <<>>
    /\ lastCall.tloop # fixtureLoop
    /\ lastCall.outcome = "AssertionError"

\* C5: when funcargs holds a loop, the hook drives the test on that very
\* loop, makes none of its own, never tears it down, and the loop is still
\* live after the hook is left (until its owner, the loop fixture, tears
\* it down).
C5_ExistingLoopPassedThrough ==
    (fixtureLoop # NoLoop /\ hookResult \in {"True", "raised"}) =>
        /\ hookLoop = fixtureLoop
        /\ taskLoop = fixtureLoop
        /\ ~hookCreated
        /\ tornDownBy[fixtureLoop] # "hook"
        /\ \A l \in Loops \ {fixtureLoop} : loopState[l] = "absent"
        /\ pc = "teardown" => loopState[fixtureLoop] = "live"

\* C5 witness: the hook returned True for a test run on the fixture's loop,
\* which is live.
C5_Witness ==
    /\ fixtureLoop # NoLoop
    /\ hookResult = "True"
    /\ taskLoop = fixtureLoop
    /\ pc = "teardown"
    /\ loopState[fixtureLoop] = "live"

\* C6: for a coroutine test without a loop argument the hook runs the test
\* body once, as a task on a live loop it obtained itself, and it is left
\* only after the task has finished: with True when the body returned, by
\* the body's exception when it raised; it never declines.
C6_CoroutineRunsWithoutLoop ==
    (isCoro /\ ~hasLoop) =>
        /\ hookResult # "None"
        /\ pc \in {"body", "ran"} =>
            /\ invoked = 1
            /\ hookLoop # NoLoop
            /\ taskLoop = hookLoop
            /\ loopState[hookLoop] = "live"
            /\ hookResult = "pending"
        /\ pc = "body" => bodyOutcome = "running"
        /\ hookResult = "True" => (bodyOutcome = "returned" /\ invoked = 1)
        /\ hookResult = "raised" => (bodyOutcome = "raised" /\ invoked = 1)
        /\ pc = "done" => hookResult \in {"True", "raised"}

\* C6 witness: a coroutine test without a loop argument raised, and the
\* exception left the hook.
C6_Witness ==
    /\ isCoro
    /\ ~hasLoop
    /\ bodyOutcome = "raised"
    /\ hookResult = "raised"

\* C7: a call of test_client with a bare callable invokes it exactly once,
\* with the fixture's loop first and then exactly the call's positional and
\* keyword arguments, and (the callable having returned) a client made with
\* no options is started; nothing else invokes a callable; a client that is
\* registered for a callable has no options and is the one the call started.
C7_CallableForwarding ==
    /\ [][(nCtorCalls' # nCtorCalls \/ (IsCall /\ lastCall'.form = "callable"))
          => (/\ IsCall
              /\ lastCall'.form = "callable"
              /\ nCtorCalls' = nCtorCalls + 1
              /\ lastCtor' = [loop |-> fixtureLoop, args |-> lastCall'.args,
                              kw |-> lastCall'.kw]
              /\ lastCall'.outcome = "starting" =>
                    /\ registry' = registry
                    /\ \E r \in pending' :
                        /\ pending' = pending \cup {r}
                        /\ r \notin pending
                        /\ r.id = lastCall'.id
                        /\ r.kind = "client"
                        /\ r.form = "callable"
                        /\ r.opts = {})]_vars
    /\ [][(/\ lastDone' # lastDone
           /\ lastDone'.outcome = "returned"
           /\ lastDone'.id = lastCall.id
           /\ lastCall.form = "callable")
          => \E r \in pending :
                /\ r.id = lastCall.id
                /\ r.opts = {}
                /\ registry' = [registry EXCEPT !["test_client"] = Append(@, r)]]_vars

\* C7 witness: a callable was invoked with positional and keyword
\* arguments, and the client wrapping what it returned is registered.
C7_Witness ==
    /\ lastCall.form = "callable"
    /\ lastCall.args # <<>>
    /\ lastCall.kw # {}
    /\ lastCtor = [loop |-> fixtureLoop, args |-> lastCall.args, kw |-> lastCall.kw]
    /\ lastDone = [id |-> lastCall.id, outcome |-> "returned"]
    /\ \E i \in 1..Len(registry["test_client"]) :
        registry["test_client"][i].id = lastCall.id

\* C8: a call of test_client with a pre-built target and at least one
\* positional argument ends in an AssertionError whatever loop the target
\* is bound to, and the step constructs, starts and registers nothing.
C8_PositionalArgsRejected ==
    [][(/\ IsCall
        /\ lastCall'.fac = "test_client"
        /\ lastCall'.form \in PreBuilt
        /\ lastCall'.args # <<>>)
       => (/\ lastCall'.outcome = "AssertionError"
           /\ lastCall'.id = 0
           /\ NothingAttempted)]_vars

\* C8 witness: the client factory was called with a positional argument
\* for a pre-built target bound to the fixture's own loop, and was rejected.
C8_Witness ==
    /\ lastCall.fac = "test_client"
    /\ lastCall.form \in PreBuilt
    /\ lastCall.args # <<>>
    /\ lastCall.tloop = fixtureLoop
    /\ lastCall.outcome = "AssertionError"

\* C9: while the body runs, the registries hold exactly the resources whose
\* start succeeded, one entry each, in the order of success, and none that
\* is still starting; a start that fails reaches the caller as an error and
\* leaves every registry as it was; a start that succeeds adds one entry.
C9_NoEntryOnStartFailure ==
    /\ [](pc = "body" =>
            \A f \in Factories :
                /\ IdsOf(registry[f]) = started[f]
                /\ \A r \in pending : r.id \notin Ids(registry[f]))
    /\ [][(Cardinality(pending') < Cardinality(pending)) =>
            \E r \in pending :
                /\ pending' = pending \ {r}
                /\ lastDone'.id = r.id
                /\ lastDone'.outcome \in {"returned", "StartError"}
                /\ lastDone'.outcome = "StartError" => registry' = registry
                /\ lastDone'.outcome = "returned" =>
                     registry' = [registry EXCEPT ![FactoryOf(r.kind)] =
                                     Append(@, r)]]_vars

\* C9 witness: a start has failed, after another resource was registered.
C9_Witness ==
    /\ pc = "body"
    /\ lastDone.outcome = "StartError"
    /\ \E f \in Factories : registry[f] # <<>>

\* C10: for a test function that is not a coroutine function the hook
\* returns None, never calls the function, and neither makes nor tears down
\* a loop.
C10_DeclinesPlainFunction ==
    ~isCoro =>
        /\ hookResult \in {"pending", "None"}
        /\ pc \in {"teardown", "done"} => hookResult = "None"
        /\ invoked = 0
        /\ bodyOutcome = "running"
        /\ hookLoop = NoLoop
        /\ ~hookCreated
        /\ \A l \in Loops :
            /\ tornDownBy[l] # "hook"
            /\ l # fixtureLoop => loopState[l] = "absent"

\* C10 witness: the hook has declined a plain function.
C10_Witness ==
    /\ ~isCoro
    /\ hookResult = "None"
    /\ invoked = 0

\* C11 (as claimed): every resource that a factory has started or holds in
\* its registry, whatever form of target it was made for, is bound to the
\* loop of the test (the loop fixture's value).
C11_AllBoundToActiveLoop ==
    /\ \A r \in pending : r.loop = fixtureLoop
    /\ \A f \in Factories : \A i \in 1..Len(registry[f]) :
          registry[f][i].loop = fixtureLoop

\* C12 (as claimed): once the hook is left, by `return True` or by the
\* exception of the test body, a loop that the hook made itself has been
\* torn down.
C12_HookLoopTornDown ==
    (hookCreated /\ hookResult \in {"True", "raised"}) =>
        /\ loopState[hookLoop] = "closed"
        /\ tornDownBy[hookLoop] = "hook"

\* The number of times teardown has issued close() on resource id.
CloseCount(id) ==
    Cardinality(UNION {{<<f, i>> : i \in {j \in 1..Len(closeLog[f]) :
                                            closeLog[f][j] = id}} :
                       f \in Factories})

\* C13 (as claimed): teardown never issues close() twice on a resource that
\* a factory started, and once all teardowns have run every such resource
\* has had its close() issued.
C13_ClosedExactlyOnce ==
    \A f \in Factories : \A k \in 1..Len(started[f]) :
        /\ CloseCount(started[f][k]) <= 1
        /\ pc = "done" => CloseCount(started[f][k]) = 1

\* A close() that never finishes is in flight.
HungInFlight == \E r \in closing : r.id \in hung

\* C14: a fixture's teardown is complete only when close() has been issued
\* for every resource it registered and none is still in flight; a running
\* teardown comes to an end (complete, with the registry empty, or ended by
\* a close() that raised) unless a close() in flight never finishes; and a
\* close() that never finishes blocks everything for good: the teardown
\* stays running and no step of the test is possible any more.
C14_DrainWaitsForEveryClose ==
    /\ [](\A f \in Factories :
            fin[f] = "done" =>
                /\ registry[f] = <<>>
                /\ \A r \in closing : FactoryOf(r.kind) # f
                /\ Len(closeLog[f]) = Len(started[f])
                /\ \A i \in 1..Len(closeLog[f]) : closeLog[f][i] \notin hung)
    /\ \A f \in Factories :
          (fin[f] = "running") ~> (fin[f] \in {"done", "failed"} \/ HungInFlight)
    /\ [](HungInFlight =>
            /\ pc = "teardown"
            /\ \E f \in Factories : fin[f] = "running"
            /\ ~ENABLED Next)

\* C14 witness: one fixture's teardown is complete after a close, and
\* another's is blocked by its close, which never finishes.
C14_Witness ==
    /\ HungInFlight
    /\ \E f \in Factories : fin[f] = "done" /\ closeLog[f] # <<>>
    /\ \E f \in Factories : fin[f] = "running"

\* C15: closes are issued and in flight only during teardown, after the
\* test body has finished and the hook is left, and on the fixture's loop
\* while it is live; during the whole teardown that loop is live and torn
\* down by nobody, a fixture's teardown never fails for a closed loop, and
\* the loop is torn down by the loop fixture alone, once every factory
\* fixture's teardown has ended.
C15_ClosesOnLiveLoop ==
    /\ []((closing # {} \/ \E f \in Factories : fin[f] # "pending") =>
            /\ bodyOutcome # "running" \/ ~isCoro
            /\ hookResult # "pending"
            /\ pending = {})
    /\ [](pc = "teardown" =>
            /\ loopState[fixtureLoop] = "live"
            /\ tornDownBy[fixtureLoop] = "nobody")
    /\ [](\A f \in Factories : (closeLog[f] = <<>> => fin[f] # "failed"))
    /\ [][\A f \in Factories :
            closeLog'[f] # closeLog[f] =>
                /\ pc = "teardown"
                /\ loopState[fixtureLoop] = "live"
                /\ loopState'[fixtureLoop] = "live"]_vars
    /\ [](fixtureLoop # NoLoop =>
            /\ tornDownBy[fixtureLoop] \in {"nobody", "fixture"}
            /\ loopState[fixtureLoop] = "closed" =>
                /\ pc = "done"
                /\ closing = {}
                /\ \A f \in Factories : fin[f] \in {"done", "failed"})

\* C15 witness: a coroutine test has ended, two registries have been
\* drained, and the loop fixture has then torn the loop down.
C15_Witness ==
    /\ isCoro
    /\ pc = "done"
    /\ fixtureLoop # NoLoop
    /\ tornDownBy[fixtureLoop] = "fixture"
    /\ Cardinality({f \in Factories : closeLog[f] # <<>>}) >= 2

====
